---------------------------- MODULE Spec2Model ----------------------------
(***************************************************************************)
(* Model of the Virtual Weather IoT Dashboard:                             *)
(*   - WeatherService (weather_service.py): read-through cache in front of *)
(*     the HTTP weather provider, with the stale fallback on HTTP 429;     *)
(*   - WeatherApp (app.py): the interactive polling loop, its display rows,*)
(*     its rolling chart history and its fire-and-forget MQTT publishing;  *)
(*   - MqttClient (mqtt_client.py): connection flag and publish.           *)
(*                                                                         *)
(* Conventions.  A character is a one-element token (a one-character       *)
(* string, or "U+XXXX" for a non-ASCII code point); a string is a sequence *)
(* of characters.  Temperatures, humidities and wind speeds are integers   *)
(* in tenths of their unit; the provider's raw numbers are in hundredths.  *)
(* The clock counts milliseconds.                                          *)
(***************************************************************************)
EXTENDS Integers, Sequences, FiniteSets, Bags, TLC

(***************************************************************************)
(* Bounds of the model.                                                    *)
(***************************************************************************)
\* the clock advances at most MaxClockSteps times, ClockStep seconds each
MaxClockSteps == 4
\* interactive ticks started in one behaviour of SpecApp
MaxTicks == 1
\* interactive ticks started in one behaviour of SpecLoop
MaxLoopTicks == 2
\* configured cities in the interactive application
MaxCities == 2
\* ticks of the chart-history specification (beyond the history capacity)
MaxHistTicks == 63
\* concurrent get_weather calls for one city
MaxCallers == 2
\* passes of the unattended simulator
MaxSimTicks == 2
\* length of the names given to sanitize_topic
MaxNameLen == 4
\* words in the condition texts given to the text classifier
MaxWords == 2
\* half-width, in tenths, of the ranges around the thresholds of the
\* numeric classifier
CondWindow == 5

\* weather_service.py: CACHE_DURATION (the second assignment wins)
CACHE_DURATION == 600

\* the clock counts milliseconds; time.time() is the clock in seconds
MsPerSec == 1000
\* granularity of the modelled clock: ages 0, TTL/2, TTL (the boundary), ...
ClockStep == (CACHE_DURATION * MsPerSec) \div 2
MaxNow == MaxClockSteps * ClockStep
\* the interactive specifications let the clock step once per tick
MaxAppNow == MaxTicks * ClockStep
MaxLoopNow == MaxLoopTicks * ClockStep

(***************************************************************************)
(* Characters and strings.                                                 *)
(***************************************************************************)
UpperAZ == <<"A","B","C","D","E","F","G","H","I","J","K","L","M",
             "N","O","P","Q","R","S","T","U","V","W","X","Y","Z">>
LowerAZ == <<"a","b","c","d","e","f","g","h","i","j","k","l","m",
             "n","o","p","q","r","s","t","u","v","w","x","y","z">>
Digits == {"0","1","2","3","4","5","6","7","8","9"}

\* str.lower() on one character: A-Z and the non-ASCII capital U+00DC
LowerChar(ch) ==
    IF \E i \in 1..26 : UpperAZ[i] = ch
    THEN LowerAZ[CHOOSE i \in 1..26 : UpperAZ[i] = ch]
    ELSE IF ch = "U+00DC" THEN "U+00FC" ELSE ch

\* str.lower()
Lower(s) == [i \in 1..Len(s) |-> LowerChar(s[i])]

\* Python's  kw in s
Contains(s, kw) ==
    \E i \in 1..(Len(s) - Len(kw) + 1) : SubSeq(s, i, i + Len(kw) - 1) = kw

(***************************************************************************)
(* sanitize_topic (app.py).                                                *)
(***************************************************************************)
\* the character class [\s\-.,!?]
SepChars == {" ", "\t", "\n", "U+00A0", "-", ".", ",", "!", "?"}
\* the character class [a-z0-9_]
SafeChars == {LowerAZ[i] : i \in 1..26} \cup Digits \cup {"_"}

\* re.sub(r'[\s\-.,!?]+', '_', s): every maximal run becomes one underscore
RECURSIVE CollapseRuns(_)
CollapseRuns(s) ==
    IF s = <<>> THEN <<>>
    ELSE IF Head(s) \in SepChars
         THEN IF Len(s) > 1 /\ s[2] \in SepChars
              THEN CollapseRuns(Tail(s))
              ELSE <<"_">> \o CollapseRuns(Tail(s))
         ELSE <<Head(s)>> \o CollapseRuns(Tail(s))

\* re.sub(r'[^a-z0-9_]', '', s)
DeleteUnsafe(s) == SelectSeq(s, LAMBDA ch : ch \in SafeChars)

\* str.strip('_')
RECURSIVE StripLeft(_)
StripLeft(s) ==
    IF s # <<>> /\ Head(s) = "_" THEN StripLeft(Tail(s)) ELSE s

RECURSIVE StripRight(_)
StripRight(s) ==
    IF s # <<>> /\ s[Len(s)] = "_" THEN StripRight(SubSeq(s, 1, Len(s) - 1)) ELSE s

StripOneUnderscore(s) ==
    LET l == IF s # <<>> /\ Head(s) = "_" THEN Tail(s) ELSE s
    IN  IF l # <<>> /\ l[Len(l)] = "_" THEN SubSeq(l, 1, Len(l) - 1) ELSE l

\* str.strip('_')
StripUnderscores(s) == StripRight(StripLeft(s))

SanitizeStripFirst(name) == DeleteUnsafe(StripUnderscores(CollapseRuns(Lower(name))))

sanitize_topic(name) == StripUnderscores(DeleteUnsafe(CollapseRuns(Lower(name))))

TopicPrefix == <<"w","e","a","t","h","e","r","/">>

(***************************************************************************)
(* Normalisation of a provider response (weather_service.py).              *)
(***************************************************************************)
\* round() of n/d to an integer, ties to the even neighbour (d > 0)
RoundHalfEven(n, d) ==
    LET q == n \div d
        r == n % d
    IN  IF 2 * r < d THEN q
        ELSE IF 2 * r > d THEN q + 1
        ELSE IF q % 2 = 0 THEN q ELSE q + 1

KwThunder == <<"t","h","u","n","d","e","r">>
KwRain == <<"r","a","i","n">>
KwDrizzle == <<"d","r","i","z","z","l","e">>
KwShower == <<"s","h","o","w","e","r">>
KwSnow == <<"s","n","o","w">>
KwIce == <<"i","c","e">>
KwSleet == <<"s","l","e","e","t">>
KwFog == <<"f","o","g">>
KwMist == <<"m","i","s","t">>
KwHaze == <<"h","a","z","e">>
KwClear == <<"c","l","e","a","r">>
KwCloud == <<"c","l","o","u","d">>
KwPartlyCloudy == <<"p","a","r","t","l","y"," ","c","l","o","u","d","y">>
KwScatteredClouds ==
    <<"s","c","a","t","t","e","r","e","d"," ","c","l","o","u","d","s">>
KwOvercast == <<"o","v","e","r","c","a","s","t">>

ClassifyTextCloudFirst(text) ==
    LET conditions == Lower(text)
    IN  IF Contains(conditions, KwThunder) THEN "thunderstorm"
        ELSE IF Contains(conditions, KwPartlyCloudy)
                \/ Contains(conditions, KwScatteredClouds) THEN "partly-cloudy"
        ELSE IF Contains(conditions, KwRain) \/ Contains(conditions, KwDrizzle)
                \/ Contains(conditions, KwShower) THEN "rain"
        ELSE IF Contains(conditions, KwSnow) \/ Contains(conditions, KwIce)
                \/ Contains(conditions, KwSleet) THEN "snow"
        ELSE IF Contains(conditions, KwFog) \/ Contains(conditions, KwMist)
                \/ Contains(conditions, KwHaze) THEN "fog"
        ELSE IF Contains(conditions, KwClear) /\ ~Contains(conditions, KwCloud)
             THEN "clear"
        ELSE IF Contains(conditions, KwCloud) \/ Contains(conditions, KwOvercast)
             THEN "overcast"
        ELSE "unknown"

\* the if/elif chain mapping the provider's condition text to a category
ClassifyText(text) ==
    LET conditions == Lower(text)
    IN  IF Contains(conditions, KwThunder) THEN "thunderstorm"
        ELSE IF Contains(conditions, KwRain) \/ Contains(conditions, KwDrizzle)
                \/ Contains(conditions, KwShower) THEN "rain"
        ELSE IF Contains(conditions, KwSnow) \/ Contains(conditions, KwIce)
                \/ Contains(conditions, KwSleet) THEN "snow"
        ELSE IF Contains(conditions, KwFog) \/ Contains(conditions, KwMist)
                \/ Contains(conditions, KwHaze) THEN "fog"
        ELSE IF Contains(conditions, KwClear) /\ ~Contains(conditions, KwCloud)
             THEN "clear"
        ELSE IF Contains(conditions, KwPartlyCloudy)
                \/ Contains(conditions, KwScatteredClouds) THEN "partly-cloudy"
        ELSE IF Contains(conditions, KwCloud) \/ Contains(conditions, KwOvercast)
             THEN "overcast"
        ELSE "unknown"

\* raw['currentConditions'] -> the normalised reading
Normalize(current) ==
    [temperature |-> RoundHalfEven(current.temp, 10),
     humidity    |-> RoundHalfEven(current.humidity, 10),
     wind        |-> RoundHalfEven(current.windspeed * 160934, 1000000),
     condition   |-> ClassifyText(current.conditions)]

(***************************************************************************)
(* Inputs: city names, provider responses, network outcomes.               *)
(***************************************************************************)
CityRio == <<"R","i","o">>
CityRioLower == <<"r","i","o">>
CityStLo == <<"S","t","."," ","L","o","!">>
CityWild == <<"a","/","#","+","B">>
CityNames == {CityRio, CityRioLower, CityStLo, CityWild}

\* the cities queried by direct callers of the service
SvcCities == {CityRio, CityRioLower}

TextClear == <<"C","l","e","a","r">>
TextRainCloudy ==
    <<"R","a","i","n",","," ","P","a","r","t","l","y"," ","c","l","o","u","d","y">>

\* currentConditions objects the provider may answer with
RawResponses ==
    { [temp |-> 2134, humidity |-> 5525, windspeed |-> 1000,
       conditions |-> TextClear],
      [temp |-> 1875, humidity |-> 9010, windspeed |-> 250,
       conditions |-> TextRainCloudy] }

\* Normalize tabulated over the modelled responses
NormalizedResponse == [r \in RawResponses |-> Normalize(r)]

\* the readings the service can build
Readings == {NormalizedResponse[r] : r \in RawResponses}

\* what requests.get / raise_for_status / response.json can produce
NetOutcomes ==
    { [kind |-> "ok", status |-> 200, raw |-> r] : r \in RawResponses }
    \cup { [kind |-> "http", status |-> st, raw |-> <<>>] : st \in {401, 429, 500} }
    \cup { [kind |-> k, status |-> 0, raw |-> <<>>] : k \in {"transport"} }
    \cup { [kind |-> k, status |-> 200, raw |-> <<>>] : k \in {"badjson", "nokey"} }

NoRequest == [kind |-> "none", status |-> 0, raw |-> <<>>]

\* time the HTTP round trip takes
Latencies == {0, ClockStep}

\* outcomes met by the interactive application: a good answer, the rate
\* limit, another RequestException, and an exception of another class
AppOutcomes ==
    { o \in NetOutcomes :
        \/ o.kind = "ok" /\ o.raw.conditions = TextClear
        \/ o.kind = "http" /\ o.status \in {429, 500}
        \/ o.kind = "nokey" }
AppLatencies == {0}

(***************************************************************************)
(* WeatherService (weather_service.py).                                    *)
(***************************************************************************)
NoEntry == <<>>
NoReading == <<>>
NoError == [class |-> "none", status |-> 0]

\* the exception classes that derive from requests.RequestException
RequestExceptions == {"HTTPError", "ConnectionError", "JSONDecodeError"}

\* the object a caller is handed: OwnObject is a private dict, a city name
\* is the dict held in that city's cache entry
OwnObject == <<>>

\* a returned dict that is the cache's own object (no copy made)
DictShared(ref, val) == [ref |-> ref, val |-> val]

\* dict.copy() of the object ref whose items are val
DictCopy(ref, val) == [ref |-> OwnObject, val |-> val]

\* a call that returned obj; prior is the entry the lookup found, at the
\* time of the lookup, net the request made (NoRequest if none)
Returned(city, flag, prior, at, net, path, obj) ==
    [kind |-> "value", city |-> city, flag |-> flag, prior |-> prior,
     at |-> at, net |-> net, path |-> path, ref |-> obj.ref,
     val |-> obj.val, err |-> NoError]

\* a call that raised an exception of the given class
Raised(city, flag, prior, at, net, class) ==
    [kind |-> "raise", city |-> city, flag |-> flag, prior |-> prior,
     at |-> at, net |-> net, path |-> "raised", ref |-> OwnObject,
     val |-> NoReading, err |-> [class |-> class, status |-> net.status]]

NoCall ==
    [kind |-> "none", city |-> <<>>, flag |-> TRUE, prior |-> NoEntry,
     at |-> 0, net |-> NoRequest, path |-> "none", ref |-> OwnObject,
     val |-> NoReading, err |-> NoError]

\* a freshness test that also accepts an entry exactly CACHE_DURATION old
IsFreshInclusive(entry, t) == t - entry.ts <= CACHE_DURATION * MsPerSec

\* the freshness test: time.time() - timestamp < self.CACHE_DURATION
IsFresh(entry, t) == t - entry.ts < CACHE_DURATION * MsPerSec

\* a fallback that restamps the stale entry it serves
OnHTTPErrorRefresh(c, city, flag, at, net, t) ==
    IF net.status = 429 /\ flag /\ c[city] # NoEntry
    THEN [cache |-> [c EXCEPT ![city].ts = t], now |-> t,
          ret |-> Returned(city, flag, c[city], at, net, "stale",
                           DictCopy(city, c[city].data))]
    ELSE [cache |-> c, now |-> t,
          ret |-> Raised(city, flag, c[city], at, net, "HTTPError")]

\* an except clause that falls back to the stale entry on every status
OnHTTPErrorAnyStatus(c, city, flag, at, net, t) ==
    IF flag /\ c[city] # NoEntry
    THEN [cache |-> c, now |-> t,
          ret |-> Returned(city, flag, c[city], at, net, "stale",
                           DictCopy(city, c[city].data))]
    ELSE [cache |-> c, now |-> t,
          ret |-> Raised(city, flag, c[city], at, net, "HTTPError")]

\* an except clause without the stale fallback
OnHTTPErrorNoFallback(c, city, flag, at, net, t) ==
    [cache |-> c, now |-> t,
     ret |-> Raised(city, flag, c[city], at, net, "HTTPError")]

\* the except HTTPError clause: stale fallback on 429, else re-raise
\* (cached_data is the expired entry's dict, truthy whenever it exists)
OnHTTPError(c, city, flag, at, net, t) ==
    IF net.status = 429 /\ flag /\ c[city] # NoEntry
    THEN [cache |-> c, now |-> t,
          ret |-> Returned(city, flag, c[city], at, net, "stale",
                           DictCopy(city, c[city].data))]
    ELSE [cache |-> c, now |-> t,
          ret |-> Raised(city, flag, c[city], at, net, "HTTPError")]

\* a store that also writes the entry of the lower-cased city name
StoreAndReturnAnyCase(c, city, flag, at, net, t) ==
    LET data == NormalizedResponse[net.raw]
    IN  [cache |-> [c EXCEPT ![city] = [ts |-> t, data |-> data],
                             ![Lower(city)] = [ts |-> t, data |-> data]],
         now |-> t,
         ret |-> Returned(city, flag, c[city], at, net, "fetched",
                          DictCopy(city, data))]

\* self._cache[city] = (time.time(), data); return data.copy()
StoreAndReturn(c, city, flag, at, net, t) ==
    LET data == NormalizedResponse[net.raw]
    IN  [cache |-> [c EXCEPT ![city] = [ts |-> t, data |-> data]],
         now |-> t,
         ret |-> Returned(city, flag, c[city], at, net, "fetched",
                          DictCopy(city, data))]

\* get_weather(city, use_cache_on_error) called at time t; net is what the
\* provider answers if it is asked, lat the time the request takes
GetWeather(c, city, flag, t, net, lat) ==
    IF c[city] # NoEntry /\ IsFresh(c[city], t)
    THEN [cache |-> c, now |-> t,
          ret |-> Returned(city, flag, c[city], t, NoRequest, "fresh",
                           DictCopy(city, c[city].data))]
    ELSE CASE net.kind = "ok" -> StoreAndReturn(c, city, flag, t, net, t + lat)
           [] net.kind = "http" -> OnHTTPError(c, city, flag, t, net, t + lat)
           [] net.kind = "transport" ->
                [cache |-> c, now |-> t + lat,
                 ret |-> Raised(city, flag, c[city], t, net, "ConnectionError")]
           [] net.kind = "badjson" ->
                [cache |-> c, now |-> t + lat,
                 ret |-> Raised(city, flag, c[city], t, net, "JSONDecodeError")]
           [] net.kind = "nokey" ->
                [cache |-> c, now |-> t + lat,
                 ret |-> Raised(city, flag, c[city], t, net, "KeyError")]

(***************************************************************************)
(* WeatherApp and MqttClient: pure parts (app.py, mqtt_client.py).         *)
(***************************************************************************)
DEFAULT_HISTORY == 60
\* update_interval (default of WeatherApp.__init__) and the delay of the
\* first root.after, in milliseconds
UPDATE_INTERVAL == 2000
FIRST_DELAY == 500
\* random.uniform(-0.2, 0.2) rounded to one decimal, in tenths: the largest
\* variation stands for all of them
JitterMax == 2
Jitters == {JitterMax}

\* the cities an operator may configure, and the lists _get_city_names
\* can return (never empty)
AppCities == {CityStLo, CityWild}
CityLists == UNION { [1..n -> AppCities] : n \in 1..MaxCities }

\* the row shown before the first update
InitialRow ==
    [shown |-> FALSE, temp |-> 0, humidity |-> 0, wind |-> 0,
     condition |-> "partly-cloudy"]

\* the four StringVar.set calls of update_loop
FormatRow(data) ==
    [shown |-> TRUE, temp |-> data.temperature, humidity |-> data.humidity,
     wind |-> data.wind, condition |-> data.condition]

\* the dict _get_weather_data returns when the service raised a
\* RequestException
DummyReading ==
    [temperature |-> 200, humidity |-> 500, wind |-> 0, condition |-> "unknown"]

\* _get_weather_data: the service's result, with dummy data in place of a
\* RequestException; any other exception propagates
GetWeatherData(r) ==
    IF r.kind = "raise" /\ r.err.class \in RequestExceptions
    THEN [kind |-> "value", val |-> DummyReading]
    ELSE [kind |-> r.kind, val |-> r.val]

\* a try block whose except clause lets the exception escape the tick
OnFetchResultUncaught(d) == IF d.kind = "value" THEN "use" ELSE "abort"

\* the try/except Exception around the fetch in update_loop: use the data,
\* or log and continue with the next city
OnFetchResult(d) == IF d.kind = "value" THEN "use" ELSE "skip"

\* a test that takes every city for the graphed one
IsGraphedAlways(city, graphed) == TRUE

\* if city == self.graphed_city
IsGraphed(city, graphed) == city = graphed

\* a registration that leaves two callbacks pending
RootAfterTwice(n) == n + 2

\* a tick that ends without registering a callback
RootAfterNothing(n) == n

\* root.after(delay, self.update_loop): one more pending callback
RootAfter(n) == n + 1

\* an append to a sequence that never evicts
DequeAppendUnbounded(q, x) == Append(q, x)

\* deque(maxlen=DEFAULT_HISTORY).append
DequeAppend(q, x) ==
    IF Len(q) < DEFAULT_HISTORY THEN Append(q, x) ELSE Append(Tail(q), x)

\* display_temp of _append_data
DisplayTemp(temp, variation) == temp + variation

\* a topic built from the city name as entered
TopicRaw(city) == TopicPrefix \o city

\* f"weather/{sanitize_topic(city)}"
Topic(city) == TopicPrefix \o sanitize_topic(city)

\* Topic tabulated over the modelled city names
TopicOf == [c \in CityNames |-> Topic(c)]

\* json.dumps of the payload dict: its items in insertion order
JsonDumps(t, city, data) ==
    << <<"timestamp", t>>, <<"city", city>>,
       <<"temperature", data.temperature>>, <<"humidity", data.humidity>>,
       <<"wind", data.wind>>, <<"condition", data.condition>> >>

\* the publish thread update_loop starts for a city
PublishMessage(t, city, data) ==
    [topic |-> TopicOf[city], payload |-> JsonDumps(t, city, data)]

\* a guard that only asks whether a client is configured
ShouldPublishConfigured(configured, isConnected) == configured

\* if self.mqtt and self.mqtt.is_connected()
ShouldPublish(configured, isConnected) == configured /\ isConnected

\* a publish without the try/except: a transport error reaches the caller
MqttPublishUnguarded(isConnected, fails) ==
    [kind |-> "done", warned |-> ~isConnected, attempted |-> TRUE,
     caught |-> FALSE, raised |-> fails]

\* MqttClient.publish: warn if not connected, attempt the publish anyway,
\* catch whatever the paho client raises
MqttPublish(isConnected, fails) ==
    [kind |-> "done", warned |-> ~isConnected, attempted |-> TRUE,
     caught |-> fails, raised |-> FALSE]

NoPublish ==
    [kind |-> "none", warned |-> FALSE, attempted |-> FALSE,
     caught |-> FALSE, raised |-> FALSE]

(***************************************************************************)
(* State.                                                                  *)
(***************************************************************************)
VARIABLES
    cache,        \* WeatherService._cache: city -> NoEntry or [ts, data]
    now,          \* the wall clock, in milliseconds
    ret,          \* outcome of the latest get_weather call
    callSeq,      \* parity of the number of get_weather calls made
    lastGood,     \* city -> reading built by its latest successful fetch
    mutated,      \* city whose returned reading the caller wrote to, or <<>>
    phase,        \* "new", "running" (main loop) or "closed" (window closed)
    cities,       \* WeatherApp.cities
    mqttOn,       \* WeatherApp.mqtt is not None
    connected,    \* MqttClient._connected
    city_data,    \* WeatherApp.city_data: city -> row
    temp_history, \* WeatherApp.temp_history
    time_history, \* WeatherApp.time_history
    histLog,      \* every point ever appended to the history, in order
    pos,          \* 0 between ticks, else index of the next city of the tick
    scheduled,    \* number of pending root.after(update_loop) callbacks
    due,          \* time at which the pending callback may fire
    ticks,        \* number of ticks started
    tickFailed,   \* an exception escaped update_loop
    workers,      \* bag of publish threads started and not yet run
    pubResult,    \* outcome of the latest MqttClient.publish call
    arg,          \* input of the pure function under study
    applied,      \* number of times the function was applied
    result,       \* its value on arg
    result2,      \* its value on result (when applied twice)
    callers,      \* concurrent get_weather calls: position and locals of each
    written,      \* the pairs stored by those calls, in the order of the stores
    priorEntry,   \* the entry of their city before the calls began
    hpc,          \* position of the thread running HeadlessWeatherSimulator.start
    running,      \* HeadlessWeatherSimulator._running
    hpos,         \* index of the city _simulate_data handles next
    hticks,       \* passes of _simulate_data begun
    stdout,       \* lines printed by _simulate_data
    logfile,      \* lines appended to the log file
    logOn,        \* whether a log file is configured
    stopCalled    \* whether stop() was called

svcVars == <<cache, now, ret, callSeq, lastGood, mutated>>
appVars == <<phase, cities, mqttOn, connected, city_data, temp_history,
             time_history, histLog, pos, scheduled, due, ticks,
             tickFailed, workers, pubResult>>
pureVars == <<arg, applied, result, result2>>
concVars == <<callers, written, priorEntry>>
simVars == <<hpc, running, hpos, hticks, stdout, logfile, logOn, stopCalled>>
extVars == <<pureVars, concVars, simVars>>
vars == <<svcVars, appVars, extVars>>

SvcInit ==
    /\ cache = [c \in CityNames |-> NoEntry]
    /\ now = 0
    /\ ret = NoCall
    /\ callSeq = 0
    /\ lastGood = [c \in CityNames |-> NoReading]
    /\ mutated = <<>>

\* no pure function is under study
PureIdle ==
    /\ arg = <<>>
    /\ applied = 0
    /\ result = <<>>
    /\ result2 = <<>>

\* no concurrent callers
ConcIdle ==
    /\ callers = <<>>
    /\ written = <<>>
    /\ priorEntry = <<>>

\* no headless simulator
SimIdle ==
    /\ hpc = "none"
    /\ running = FALSE
    /\ hpos = 0
    /\ hticks = 0
    /\ stdout = <<>>
    /\ logfile = <<>>
    /\ logOn = FALSE
    /\ stopCalled = FALSE

ExtIdle == PureIdle /\ ConcIdle /\ SimIdle

\* the application before WeatherApp.__init__ ran, for a city list and an
\* optional MQTT client
AppNew(cs, m) ==
    /\ phase = "new"
    /\ cities = cs
    /\ mqttOn = m
    /\ connected = FALSE
    /\ city_data = <<>>
    /\ temp_history = <<>>
    /\ time_history = <<>>
    /\ histLog = <<>>
    /\ pos = 0
    /\ scheduled = 0
    /\ due = 0
    /\ ticks = 0
    /\ tickFailed = FALSE
    /\ workers = EmptyBag
    /\ pubResult = NoPublish

(***************************************************************************)
(* Operations of the service.                                              *)
(***************************************************************************)
\* effect of one get_weather call on the service state
ApplyCall(res) ==
    /\ cache' = res.cache
    /\ now' = res.now
    /\ ret' = res.ret
    /\ callSeq' = 1 - callSeq
    /\ lastGood' = IF res.ret.path = "fetched"
                   THEN [lastGood EXCEPT ![res.ret.city] = res.cache[res.ret.city].data]
                   ELSE lastGood

\* a client calls service.get_weather(city, use_cache_on_error)
Call(city, flag, net, lat) ==
    /\ now + lat <= MaxNow
    /\ ApplyCall(GetWeather(cache, city, flag, now, net, lat))
    /\ UNCHANGED mutated
    /\ UNCHANGED appVars
    /\ UNCHANGED extVars

\* the caller writes to the dict the latest call returned (once per dict:
\* it sets a temperature no provider response normalises to)
MutateReturned ==
    /\ ret.kind = "value"
    /\ ret.val \in Readings
    /\ ret' = [ret EXCEPT !.val.temperature = @ + 1]
    /\ cache' = IF ret.ref = OwnObject THEN cache
                ELSE [cache EXCEPT ![ret.ref].data.temperature = @ + 1]
    /\ mutated' = ret.city
    /\ UNCHANGED <<now, callSeq, lastGood>>
    /\ UNCHANGED appVars
    /\ UNCHANGED extVars

\* time passes, up to limit
AdvanceClock(limit) ==
    /\ now + ClockStep <= limit
    /\ now' = now + ClockStep
    /\ UNCHANGED <<cache, ret, callSeq, lastGood, mutated>>
    /\ UNCHANGED appVars
    /\ UNCHANGED extVars

(***************************************************************************)
(* Operations of the interactive application.                              *)
(***************************************************************************)
graphed_city == cities[1]

\* _append_data(temp) at time t
AppendData(temp, variation, t) ==
    /\ temp_history' = DequeAppend(temp_history, DisplayTemp(temp, variation))
    /\ time_history' = DequeAppend(time_history, t)
    /\ histLog' = Append(histLog, <<t, DisplayTemp(temp, variation)>>)

\* WeatherApp.__init__: rows, first point of the history (the graphed
\* city's temperature, or 20.0 if fetching raised), first root.after
Construct(net, lat, variation) ==
    /\ phase = "new"
    /\ lat = 0 \/ now + lat <= MaxNow
    /\ LET res == GetWeather(cache, graphed_city, TRUE, now, net, lat)
           d == GetWeatherData(res.ret)
       IN  /\ ApplyCall(res)
           /\ AppendData(IF d.kind = "value" THEN d.val.temperature
                         ELSE DummyReading.temperature, variation, res.now)
           /\ due' = res.now + FIRST_DELAY
    /\ city_data' = [c \in {cities[i] : i \in DOMAIN cities} |-> InitialRow]
    /\ scheduled' = RootAfter(scheduled)
    /\ phase' = "running"
    /\ UNCHANGED extVars
    /\ UNCHANGED <<mutated, cities, mqttOn, connected, pos, ticks,
                   tickFailed, workers, pubResult>>

\* one iteration of the for loop of update_loop; the first iteration is the
\* timer firing, the last one ends with root.after(update_interval, ...)
UpdateLoopStep(net, lat, variation, maxTicks) ==
    /\ phase = "running"
    /\ \/ pos > 0
       \/ pos = 0 /\ scheduled > 0 /\ now >= due /\ ticks < maxTicks
    /\ lat = 0 \/ now + lat <= MaxNow
    /\ LET i == IF pos = 0 THEN 1 ELSE pos
           city == cities[i]
           res == GetWeather(cache, city, TRUE, now, net, lat)
           d == GetWeatherData(res.ret)
           todo == OnFetchResult(d)
           last == i = Len(cities)
           fired == IF pos = 0 THEN 1 ELSE 0
       IN  /\ ApplyCall(res)
           /\ city_data' = IF todo = "use"
                           THEN [city_data EXCEPT ![city] = FormatRow(d.val)]
                           ELSE city_data
           /\ IF todo = "use" /\ IsGraphed(city, graphed_city)
              THEN AppendData(d.val.temperature, variation, res.now)
              ELSE UNCHANGED <<temp_history, time_history, histLog>>
           /\ workers' = IF todo = "use" /\ ShouldPublish(mqttOn, connected)
                         THEN workers (+) SetToBag({PublishMessage(res.now, city, d.val)})
                         ELSE workers
           /\ tickFailed' = (tickFailed \/ todo = "abort")
           /\ pos' = IF last \/ todo = "abort" THEN 0 ELSE i + 1
           /\ scheduled' = IF todo = "abort" THEN scheduled - fired
                           ELSE IF last THEN RootAfter(scheduled - fired)
                           ELSE scheduled - fired
           /\ due' = IF last /\ todo # "abort" THEN res.now + UPDATE_INTERVAL
                     ELSE due
           /\ ticks' = ticks + fired
    /\ UNCHANGED <<mutated, phase, cities, mqttOn, connected, pubResult>>
    /\ UNCHANGED extVars

\* paho's network thread reports the outcome of a connection attempt
OnConnect(rc) ==
    /\ mqttOn
    /\ phase # "closed"
    /\ connected' = IF rc = 0 THEN TRUE ELSE connected
    /\ UNCHANGED svcVars
    /\ UNCHANGED extVars
    /\ UNCHANGED <<phase, cities, mqttOn, city_data, temp_history,
                   time_history, histLog, pos, scheduled, due, ticks,
                   tickFailed, workers, pubResult>>

\* paho's network thread reports that the connection dropped
OnDisconnect ==
    /\ mqttOn
    /\ phase # "closed"
    /\ connected
    /\ connected' = FALSE
    /\ UNCHANGED svcVars
    /\ UNCHANGED extVars
    /\ UNCHANGED <<phase, cities, mqttOn, city_data, temp_history,
                   time_history, histLog, pos, scheduled, due, ticks,
                   tickFailed, workers, pubResult>>

\* a publish thread runs MqttClient.publish; fails says whether the paho
\* client raises
PublishWorker(m, fails) ==
    /\ phase = "running"
    /\ BagIn(m, workers)
    /\ workers' = workers (-) SetToBag({m})
    /\ pubResult' = MqttPublish(connected, fails)
    /\ UNCHANGED svcVars
    /\ UNCHANGED extVars
    /\ UNCHANGED <<phase, cities, mqttOn, connected, city_data, temp_history,
                   time_history, histLog, pos, scheduled, due, ticks,
                   tickFailed>>

\* the operator closes the window: mainloop returns between two callbacks
CloseWindow ==
    /\ phase = "running"
    /\ pos = 0
    /\ phase' = "closed"
    /\ UNCHANGED svcVars
    /\ UNCHANGED extVars
    /\ UNCHANGED <<cities, mqttOn, connected, city_data, temp_history,
                   time_history, histLog, pos, scheduled, due, ticks,
                   tickFailed, workers, pubResult>>

(***************************************************************************)
(* Specifications.                                                         *)
(***************************************************************************)
\* the service used directly by a client (as the test scripts do)
Init == SvcInit /\ AppNew(<<>>, FALSE) /\ ExtIdle

Next ==
    \/ \E city \in SvcCities, flag \in BOOLEAN, net \in NetOutcomes, lat \in Latencies :
          Call(city, flag, net, lat)
    \/ MutateReturned
    \/ AdvanceClock(MaxNow)

Spec == Init /\ [][Next]_vars

\* the interactive application
InitApp == SvcInit /\ ExtIdle /\ \E cs \in CityLists, m \in BOOLEAN : AppNew(cs, m)

Tick == \E net \in AppOutcomes, lat \in AppLatencies, variation \in Jitters :
            UpdateLoopStep(net, lat, variation, MaxTicks)

NextApp ==
    \/ \E net \in AppOutcomes, lat \in AppLatencies, variation \in Jitters :
          Construct(net, lat, variation)
    \/ Tick
    \/ AdvanceClock(MaxAppNow)
    \/ \E rc \in {0, 5} : OnConnect(rc)
    \/ OnDisconnect
    \/ \E m \in BagToSet(workers), fails \in BOOLEAN : PublishWorker(m, fails)
    \/ CloseWindow

SpecApp == InitApp /\ [][NextApp]_vars

\* the polling loop alone (no MQTT client), with a timer that fires whenever
\* it is due and a clock that keeps running
InitLoop == SvcInit /\ ExtIdle /\ \E cs \in CityLists : AppNew(cs, FALSE)

LoopTick == \E net \in AppOutcomes, lat \in AppLatencies, variation \in Jitters :
                UpdateLoopStep(net, lat, variation, MaxLoopTicks)

NextLoop ==
    \/ \E net \in AppOutcomes, lat \in AppLatencies, variation \in Jitters :
          Construct(net, lat, variation)
    \/ LoopTick
    \/ AdvanceClock(MaxLoopNow)
    \/ CloseWindow

SpecLoop ==
    InitLoop /\ [][NextLoop]_vars
        /\ WF_vars(LoopTick) /\ WF_vars(AdvanceClock(MaxLoopNow))

\* the chart history over many ticks: two cities, a provider that answers
\* or sends a body without currentConditions, a timer that fires on time
HistOutcomes ==
    { o \in NetOutcomes :
        \/ o.kind = "ok" /\ o.raw.conditions = TextClear
        \/ o.kind = "nokey" }

InitHist == SvcInit /\ ExtIdle /\ AppNew(<<CityStLo, CityWild>>, FALSE)

\* the time until the pending callback is due passes
TimerWait ==
    /\ phase = "running"
    /\ pos = 0
    /\ scheduled > 0
    /\ now < due
    /\ now' = due
    /\ UNCHANGED <<cache, ret, callSeq, lastGood, mutated>>
    /\ UNCHANGED appVars
    /\ UNCHANGED extVars

NextHist ==
    \/ \E net \in HistOutcomes, variation \in Jitters : Construct(net, 0, variation)
    \/ \E net \in HistOutcomes, variation \in Jitters :
          UpdateLoopStep(net, 0, variation, MaxHistTicks)
    \/ TimerWait

SpecHist == InitHist /\ [][NextHist]_vars

(***************************************************************************)
(* The cache under calls that succeed, are rate-limited or fail.           *)
(***************************************************************************)
\* answers of the provider: both readings, the rate limit, a server error
\* and a transport error
CacheOutcomes ==
    { o \in NetOutcomes :
        \/ o.kind \in {"ok", "transport"}
        \/ o.kind = "http" /\ o.status \in {429, 500} }

NextCache ==
    \/ \E city \in SvcCities, flag \in BOOLEAN, net \in CacheOutcomes :
          Call(city, flag, net, 0)
    \/ AdvanceClock(MaxNow)

SpecCache == Init /\ [][NextCache]_vars

(***************************************************************************)
(* Claims about WeatherService.get_weather, checked under Spec.            *)
(***************************************************************************)
\* the step is a get_weather call
IsCall == callSeq' # callSeq

\* the call of this step found an entry younger than CACHE_DURATION
FoundFresh ==
    /\ cache[ret'.city] # NoEntry
    /\ now - cache[ret'.city].ts < CACHE_DURATION * MsPerSec

\* the request of this step failed, and not with HTTP 429
FailedNot429 ==
    \/ ret'.net.kind = "http" /\ ret'.net.status # 429
    \/ ret'.net.kind \in {"transport", "badjson", "nokey"}

\* C1: a call that finds an entry younger than CACHE_DURATION makes no
\* network request and returns a reading equal to the one built by the
\* latest successful fetch for the city, whatever the caller wrote into the
\* readings it was handed before.
C1_FreshEntryServed ==
    [][(IsCall /\ FoundFresh)
         => /\ ret'.kind = "value"
            /\ ret'.net = NoRequest
            /\ ret'.val = lastGood[ret'.city]]_vars

\* a fresh entry was served after the caller wrote into a returned reading
C1_Witness ==
    /\ mutated # <<>>
    /\ mutated = ret.city
    /\ ret.path = "fresh"
    /\ ret.val = lastGood[ret.city]

\* C2: a call that finds no entry, or an entry at least CACHE_DURATION old,
\* makes one network request; when that request succeeds the cache entry of
\* the city becomes (time of the store, new reading) and the new reading is
\* returned.
C2_MissFetchesAndStores ==
    [][(IsCall /\ ~FoundFresh)
         => /\ ret'.net \in NetOutcomes
            /\ ret'.net.kind = "ok"
                 => /\ ret'.kind = "value"
                    /\ ret'.val = Normalize(ret'.net.raw)
                    /\ cache'[ret'.city] =
                         [ts |-> now', data |-> Normalize(ret'.net.raw)]]_vars

\* an entry exactly CACHE_DURATION old was replaced by a fetch that took time
C2_Witness ==
    /\ ret.path = "fetched"
    /\ ret.prior # NoEntry
    /\ ret.at - ret.prior.ts = CACHE_DURATION * MsPerSec
    /\ cache[ret.city].ts = now
    /\ now > ret.at
    /\ cache[ret.city].data # ret.prior.data

\* C3 as stated: on HTTP 429 a call returns the prior entry's reading if the
\* city has one, and raises if it has none.
C3_Original ==
    [][(IsCall /\ ret'.net.kind = "http" /\ ret'.net.status = 429)
         => IF cache[ret'.city] # NoEntry
            THEN ret'.kind = "value" /\ ret'.val = cache[ret'.city].data
            ELSE ret'.kind = "raise"]_vars

\* C3 amended: on HTTP 429 a call returns the prior entry's reading,
\* whatever its age, if the city has an entry and use_cache_on_error is
\* true; otherwise the HTTP error is raised.
C3_StaleFallbackOn429 ==
    [][(IsCall /\ ret'.net.kind = "http" /\ ret'.net.status = 429)
         => IF cache[ret'.city] # NoEntry /\ ret'.flag
            THEN ret'.kind = "value" /\ ret'.val = cache[ret'.city].data
            ELSE ret'.kind = "raise" /\ ret'.err.class = "HTTPError"]_vars

\* a 429 was answered from an entry older than CACHE_DURATION
C3_Witness ==
    /\ ret.path = "stale"
    /\ ret.net.status = 429
    /\ ret.at - ret.prior.ts > CACHE_DURATION * MsPerSec
    /\ ret.val = ret.prior.data

C20_FallbackOnAnyFailure ==
    [][(/\ IsCall
        /\ ret'.flag
        /\ ret'.net.kind \in {"http", "transport"}
        /\ cache[ret'.city] # NoEntry
        /\ ~FoundFresh)
         => /\ ret'.kind = "value"
            /\ ret'.val = cache[ret'.city].data]_vars

\* C22 (under SpecCache): a call that raises or that is answered from the stale fallback
\* leaves every cache entry as it was; a call answered from the stale
\* fallback has made a request and returns the reading of the latest
\* successful fetch.
C22_FailureLeavesCache ==
    [][(IsCall /\ ret'.path \in {"stale", "raised"})
         => /\ cache' = cache
            /\ ret'.net # NoRequest
            /\ ret'.path = "stale"
                   => /\ ret'.val = lastGood[ret'.city]
                      /\ ret'.val = cache'[ret'.city].data]_vars

\* a 429 was answered from an entry that had already been stale for a whole
\* cache period, and the entry still carries its old timestamp
C22_Witness ==
    /\ ret.path = "stale"
    /\ ret.net.status = 429
    /\ cache[ret.city] = ret.prior
    /\ ret.at - cache[ret.city].ts >= 2 * CACHE_DURATION * MsPerSec

\* C23 (under SpecCache): an entry never disappears; an entry changes only
\* in a call for its own key whose fetch succeeded; a call answered without a successful
\* fetch returns the reading of its own key's entry, and a call whose key
\* has no entry gets no cached reading, whatever other keys hold.
C23_EntriesKeptAndIsolated ==
    [][/\ \A c \in CityNames :
            /\ cache[c] # NoEntry => cache'[c] # NoEntry
            /\ cache'[c] # cache[c]
                  => /\ IsCall
                     /\ ret'.city = c
                     /\ ret'.path = "fetched"
                     /\ cache'[c].data = ret'.val
       /\ (IsCall /\ ret'.path \in {"fresh", "stale"})
            => /\ cache[ret'.city] # NoEntry
               /\ ret'.val = cache[ret'.city].data
       /\ (IsCall /\ cache[ret'.city] = NoEntry)
            => ret'.path \in {"fetched", "raised"}]_vars

\* the key in another letter case has an entry, this key has none, and a
\* rate-limited call for this key was raised
C23_Witness ==
    /\ ret.kind = "raise"
    /\ ret.city = CityRioLower
    /\ ret.flag
    /\ ret.net.status = 429
    /\ cache[CityRio] # NoEntry
    /\ cache[CityRioLower] = NoEntry

(***************************************************************************)
(* Claims about the interactive tick, checked under SpecApp.               *)
(***************************************************************************)
\* the step is one iteration of update_loop's for loop
IsTickStep == phase = "running" /\ callSeq' # callSeq

\* C5: a tick never raises, whichever cities fail: every iteration whose
\* fetch succeeds sets the city's row to the fetched reading, every
\* iteration but the last goes on with the next city, and the last one
\* registers the next tick.
C5_TickSurvivesFailures ==
    [][IsTickStep
         => /\ ~tickFailed'
            /\ ret'.kind = "value" => city_data'[ret'.city] = FormatRow(ret'.val)
            /\ LET i == IF pos = 0 THEN 1 ELSE pos
               IN  IF i = Len(cities)
                   THEN pos' = 0 /\ scheduled' = 1
                   ELSE pos' = i + 1]_vars

\* a first tick over two cities is complete: the fetch of the first city
\* raised and its row was left alone, the second city's row is shown
C5_Witness ==
    /\ ticks = 1
    /\ pos = 0
    /\ scheduled = 1
    /\ Len(cities) = 2
    /\ cities[1] # cities[2]
    /\ ~city_data[cities[1]].shown
    /\ city_data[cities[2]].shown
    /\ city_data[cities[2]] = FormatRow(lastGood[cities[2]])

\* C6 as stated: an iteration whose fetch failed leaves the rows, the
\* history and the set of publish threads as they were.
C6_FailedCitySkipped ==
    [][(IsTickStep /\ ret'.kind = "raise")
         => /\ city_data' = city_data
            /\ temp_history' = temp_history
            /\ time_history' = time_history
            /\ workers' = workers]_vars

\* C9: a publish thread is started only by an iteration of the tick, only
\* when a client is configured and is_connected() was true, one thread per
\* iteration, and its topic is "weather/" followed by sanitize_topic(city),
\* a segment made of a-z, 0-9 and underscore only.
C9_PublishTopic ==
    [][BagCardinality(workers') > BagCardinality(workers)
         => /\ IsTickStep
            /\ mqttOn
            /\ connected
            /\ BagCardinality(workers') = BagCardinality(workers) + 1
            /\ \E m \in BagToSet(workers') :
                  /\ CopiesIn(m, workers') = CopiesIn(m, workers) + 1
                  /\ m.topic = TopicPrefix \o sanitize_topic(ret'.city)
                  /\ \A k \in (Len(TopicPrefix) + 1)..Len(m.topic) :
                        m.topic[k] \in SafeChars]_vars

\* a thread publishes to weather/ab, the topic of the city "a/#+B"
C9_Witness ==
    \E m \in BagToSet(workers) :
        /\ m.topic = TopicPrefix \o <<"a","b">>
        /\ m.payload[2] = <<"city", CityWild>>

C18_TimestampIsFetchTime ==
    [][(IsTickStep /\ ret'.kind = "value")
         => \A m \in BagToSet(workers') :
                CopiesIn(m, workers') > CopiesIn(m, workers)
                    => m.payload[1][2] = cache'[ret'.city].ts]_vars

\* C24 as stated: a tick appends its one point to the history in the
\* iteration of the first city of the list, when that city's reading is
\* processed, and every other iteration leaves the history as it was.
C24_Original ==
    [][IsTickStep
         => LET i == IF pos = 0 THEN 1 ELSE pos
                used == GetWeatherData(ret').kind = "value"
            IN  IF i = 1 /\ used
                THEN Len(histLog') = Len(histLog) + 1
                ELSE UNCHANGED <<temp_history, time_history, histLog>>]_vars

\* C24 amended: an iteration appends one point, stamped with the time of
\* the iteration, exactly when the name of its city is the name of the
\* first city of the list and the city's reading is processed; every other
\* iteration leaves the history as it was.
C24_PointPerGraphedName ==
    [][IsTickStep
         => LET i == IF pos = 0 THEN 1 ELSE pos
                d == GetWeatherData(ret')
            IN  IF cities[i] = cities[1] /\ d.kind = "value"
                THEN /\ Len(histLog') = Len(histLog) + 1
                     /\ SubSeq(histLog', 1, Len(histLog)) = histLog
                     /\ histLog'[Len(histLog')][1] = now'
                     /\ histLog'[Len(histLog')][2]
                           \in {DisplayTemp(d.val.temperature, v) : v \in Jitters}
                     /\ temp_history' # temp_history
                ELSE UNCHANGED <<temp_history, time_history, histLog>>]_vars

\* the first city's name was entered twice and one tick appended two points
\* after the constructor's one
C24_Witness ==
    /\ ticks = 1
    /\ pos = 0
    /\ Len(cities) = 2
    /\ cities[1] = cities[2]
    /\ Len(histLog) = 3

(***************************************************************************)
(* Claims about the chart history and the timer.                           *)
(***************************************************************************)
\* C7 (under SpecHist): the two history sequences have the same length, at
\* most DEFAULT_HISTORY, and hold the latest points appended, in order.
C7_HistoryBounded ==
    LET n == Len(histLog)
        k == IF n < DEFAULT_HISTORY THEN n ELSE DEFAULT_HISTORY
    IN  /\ Len(temp_history) = Len(time_history)
        /\ Len(temp_history) <= DEFAULT_HISTORY
        /\ Len(temp_history) = k
        /\ \A i \in 1..k :
              <<time_history[i], temp_history[i]>> = histLog[n - k + i]

\* more points were appended than the history holds
C7_Witness ==
    /\ Len(histLog) > DEFAULT_HISTORY + 1
    /\ Len(temp_history) = DEFAULT_HISTORY
    /\ time_history[1] # histLog[1][1]

\* C8 (under SpecLoop): the last iteration of every tick registers one
\* callback due UPDATE_INTERVAL later, whatever happened to the fetches;
\* and while the window is open and time can pass, a registered tick runs.
C8_NextTickScheduled ==
    /\ [][(IsTickStep /\ pos' = 0)
            => scheduled' = 1 /\ due' = now' + UPDATE_INTERVAL]_vars
    /\ \A k \in 0..(MaxLoopTicks - 1) :
          (phase = "running" /\ pos = 0 /\ ticks = k /\ now + ClockStep <= MaxLoopNow)
             ~> (ticks > k \/ phase = "closed")

\* a second tick ended after a first one in which a fetch had failed
C8_Witness ==
    /\ ticks = 2
    /\ pos = 0
    /\ scheduled = 1
    /\ due = now + UPDATE_INTERVAL
    /\ \E c \in DOMAIN city_data : ~city_data[c].shown

\* C25 (under SpecLoop): at most one update_loop callback is pending, and
\* none while a tick executes; a tick begins only from the one pending
\* callback; a callback is registered only by the constructor and by the
\* last iteration of a tick; the iterations of a tick handle the cities one
\* after another in list order.
C25_OneTickAtATime ==
    /\ [](/\ scheduled \in {0, 1}
          /\ pos > 0 => scheduled = 0
          /\ pos \in 0..Len(cities))
    /\ [][/\ ticks' # ticks
               => /\ pos = 0
                  /\ scheduled = 1
                  /\ ticks' = ticks + 1
                  /\ ret'.city = cities[1]
          /\ scheduled' > scheduled
               => \/ phase = "new" /\ phase' = "running"
                  \/ IsTickStep /\ pos = Len(cities)
          /\ IsTickStep
               => LET i == IF pos = 0 THEN 1 ELSE pos
                  IN  /\ ret'.city = cities[i]
                      /\ IF i = Len(cities)
                         THEN pos' = 0 /\ scheduled' = 1
                         ELSE pos' = i + 1 /\ scheduled' = 0]_vars

\* the second tick is executing its second city and no callback is pending
C25_Witness ==
    /\ ticks = 2
    /\ pos = 2
    /\ scheduled = 0
    /\ phase = "running"

(***************************************************************************)
(* sanitize_topic applied to arbitrary names, once and again.              *)
(***************************************************************************)
\* characters of the names: letters of both cases, a digit, separators, the
\* underscore, a character that is deleted and a non-ASCII capital
NameChars == {"A", "b", "1", " ", "-", "_", "!", "/", "U+00DC"}
Names == UNION { [1..n -> NameChars] : n \in 0..MaxNameLen }

InitSanitize ==
    /\ SvcInit
    /\ AppNew(<<>>, FALSE)
    /\ ConcIdle
    /\ SimIdle
    /\ arg \in Names
    /\ applied = 0
    /\ result = <<>>
    /\ result2 = <<>>

\* safe = sanitize_topic(name)
Sanitize ==
    /\ applied = 0
    /\ result' = sanitize_topic(arg)
    /\ applied' = 1
    /\ UNCHANGED <<arg, result2>>
    /\ UNCHANGED <<svcVars, appVars, concVars, simVars>>

\* sanitize_topic(safe)
SanitizeAgain ==
    /\ applied = 1
    /\ result2' = sanitize_topic(result)
    /\ applied' = 2
    /\ UNCHANGED <<arg, result>>
    /\ UNCHANGED <<svcVars, appVars, concVars, simVars>>

NextSanitize == Sanitize \/ SanitizeAgain

SpecSanitize == InitSanitize /\ [][NextSanitize]_vars

\* C11: sanitize_topic is idempotent: applying it to its own result gives
\* that result again.
C11_SanitizeIdempotent == applied = 2 => result2 = result

\* a name the function changes, with an underscore kept inside the result
C11_Witness ==
    /\ applied = 2
    /\ result # arg
    /\ \E i \in 2..(Len(result) - 1) : result[i] = "_"
    /\ \E i \in 1..Len(arg) : arg[i] = "_"

\* C12: the result is the lower-cased name in which each maximal run of
\* separators became one underscore, every other character outside a-z, 0-9
\* and underscore was deleted, and leading and trailing underscores were
\* stripped; so it holds only a-z, 0-9 and underscore, neither starts nor
\* ends with an underscore, and is empty when the name holds no letter or
\* digit.
C12_SanitizeAlgorithm ==
    applied >= 1 =>
        LET low == [i \in 1..Len(arg) |-> LowerChar(arg[i])]
            mark == [i \in 1..Len(arg) |->
                        IF low[i] \in SepChars
                        THEN IF i > 1 /\ low[i - 1] \in SepChars
                             THEN "drop" ELSE "_"
                        ELSE IF low[i] \in SafeChars THEN low[i] ELSE "drop"]
            kept == SelectSeq(mark, LAMBDA ch : ch # "drop")
            core == {i \in 1..Len(kept) : kept[i] # "_"}
            first == CHOOSE i \in core : \A j \in core : i <= j
            last == CHOOSE i \in core : \A j \in core : i >= j
            expected == IF core = {} THEN <<>> ELSE SubSeq(kept, first, last)
        IN  /\ result = expected
            /\ \A i \in 1..Len(result) : result[i] \in SafeChars
            /\ result # <<>> => result[1] # "_" /\ result[Len(result)] # "_"
            /\ (\A i \in 1..Len(arg) : low[i] \notin (SafeChars \ {"_"}))
                   => result = <<>>

\* a name with a capital letter, a run of two separators inside and a
\* trailing separator
C12_Witness ==
    /\ applied >= 1
    /\ arg = <<"A", " ", "-", "!">> \/ arg = <<"A", "-", " ", "b">>
    /\ result \in {<<"a">>, <<"a", "_", "b">>}

(***************************************************************************)
(* The text classifier applied to condition texts of several keywords.     *)
(***************************************************************************)
WordThunder == <<"T","h","u","n","d","e","r">>
WordSunny == <<"S","u","n","n","y">>
WordCLOUDS == <<"C","L","O","U","D","S">>

\* the words of the condition texts
Vocabulary ==
    { KwThunder, KwRain, KwDrizzle, KwShower, KwSnow, KwIce, KwSleet, KwFog,
      KwMist, KwHaze, KwClear, KwCloud, KwPartlyCloudy, KwScatteredClouds,
      KwOvercast, WordThunder, TextClear, WordSunny, WordCLOUDS }

RECURSIVE JoinWords(_)
JoinWords(ws) ==
    IF Len(ws) = 1 THEN ws[1]
    ELSE ws[1] \o <<",", " ">> \o JoinWords(Tail(ws))

\* current.get('conditions', 'Unknown'): texts such as "Rain, Partly cloudy"
ConditionTexts ==
    { JoinWords(ws) : ws \in UNION { [1..n -> Vocabulary] : n \in 1..MaxWords } }

InitClassify ==
    /\ SvcInit
    /\ AppNew(<<>>, FALSE)
    /\ ConcIdle
    /\ SimIdle
    /\ arg \in ConditionTexts
    /\ applied = 0
    /\ result = <<>>
    /\ result2 = <<>>

\* the classification chain of get_weather
Classify ==
    /\ applied = 0
    /\ result' = ClassifyText(arg)
    /\ applied' = 1
    /\ UNCHANGED <<arg, result2>>
    /\ UNCHANGED <<svcVars, appVars, concVars, simVars>>

NextClassify == Classify

SpecClassify == InitClassify /\ [][NextClassify]_vars

\* C13: the category is the first one, in the order thunderstorm, rain,
\* snow, fog, clear, partly-cloudy, overcast, whose keyword test matches the
\* lower-cased text, and unknown when none matches; rain wins over
\* partly-cloudy and thunder wins over everything.
C13_FirstMatchWins ==
    applied = 1 =>
        LET t == Lower(arg)
            has(kw) == Contains(t, kw)
            order == <<"thunderstorm", "rain", "snow", "fog", "clear",
                       "partly-cloudy", "overcast">>
            test == [c \in {order[i] : i \in 1..Len(order)} |->
                        CASE c = "thunderstorm" -> has(KwThunder)
                          [] c = "rain" ->
                                has(KwRain) \/ has(KwDrizzle) \/ has(KwShower)
                          [] c = "snow" ->
                                has(KwSnow) \/ has(KwIce) \/ has(KwSleet)
                          [] c = "fog" -> has(KwFog) \/ has(KwMist) \/ has(KwHaze)
                          [] c = "clear" -> has(KwClear) /\ ~has(KwCloud)
                          [] c = "partly-cloudy" ->
                                has(KwPartlyCloudy) \/ has(KwScatteredClouds)
                          [] c = "overcast" -> has(KwCloud) \/ has(KwOvercast)]
            hits == {i \in 1..Len(order) : test[order[i]]}
        IN  /\ hits # {} =>
                result = order[CHOOSE i \in hits : \A j \in hits : i <= j]
            /\ hits = {} => result = "unknown"
            /\ test["rain"] /\ test["partly-cloudy"] /\ ~test["thunderstorm"]
                   => result = "rain"
            /\ test["thunderstorm"] => result = "thunderstorm"

\* a text with a rain keyword after a partly-cloudy keyword
C13_Witness ==
    /\ applied = 1
    /\ arg = JoinWords(<<KwPartlyCloudy, KwShower>>)
    /\ result = "rain"

(***************************************************************************)
(* get_weather_condition (app.py) around its thresholds.                   *)
(***************************************************************************)
\* the tags of the icons of WEATHER_ICONS
WEATHER_ICONS ==
    [sunny |-> "clear", partly_cloudy |-> "partly-cloudy", rainy |-> "rain"]

GetWeatherConditionInclusive(temp, humidity) ==
    IF temp >= 300 /\ humidity <= 500 THEN WEATHER_ICONS.sunny
    ELSE IF humidity >= 800 THEN WEATHER_ICONS.rainy
    ELSE WEATHER_ICONS.partly_cloudy

\* temp and humidity in tenths: 30 degrees is 300, 50 % is 500, 80 % is 800
get_weather_condition(temp, humidity) ==
    IF temp > 300 /\ humidity < 500 THEN WEATHER_ICONS.sunny
    ELSE IF humidity > 800 THEN WEATHER_ICONS.rainy
    ELSE WEATHER_ICONS.partly_cloudy

\* temperatures and humidities around the thresholds, and the examples
\* (32, 40), (20, 85), (20, 60)
CondTemps == ((300 - CondWindow)..(300 + CondWindow)) \cup {200, 320}
CondHums ==
    ((500 - CondWindow)..(500 + CondWindow))
    \cup ((800 - CondWindow)..(800 + CondWindow)) \cup {400, 600, 850}

InitCondition ==
    /\ SvcInit
    /\ AppNew(<<>>, FALSE)
    /\ ConcIdle
    /\ SimIdle
    /\ arg \in [temp : CondTemps, humidity : CondHums]
    /\ applied = 0
    /\ result = <<>>
    /\ result2 = <<>>

\* condition = get_weather_condition(temp, humidity)
Condition ==
    /\ applied = 0
    /\ result' = get_weather_condition(arg.temp, arg.humidity)
    /\ applied' = 1
    /\ UNCHANGED <<arg, result2>>
    /\ UNCHANGED <<svcVars, appVars, concVars, simVars>>

NextCondition == Condition

SpecCondition == InitCondition /\ [][NextCondition]_vars

\* C14: get_weather_condition answers clear exactly when temp > 30 and
\* humidity < 50, rain exactly when that fails and humidity > 80, and
\* partly-cloudy in every other case; it answers nothing else.
C14_NumericClassifier ==
    applied = 1 =>
        LET hot == arg.temp > 300
            dry == arg.humidity < 500
            wet == arg.humidity > 800
        IN  /\ result \in {"clear", "rain", "partly-cloudy"}
            /\ result = "clear" <=> (hot /\ dry)
            /\ result = "rain" <=> (~(hot /\ dry) /\ wet)
            /\ (arg.temp = 300 /\ ~wet) => result = "partly-cloudy"
            /\ (arg.humidity = 500 \/ arg.humidity = 800)
                   => result = "partly-cloudy"

\* the thresholds themselves: 30 degrees with 49.9 %, and 80 %
C14_Witness ==
    /\ applied = 1
    /\ \/ arg.temp = 300 /\ arg.humidity = 499
       \/ arg.humidity = 800
    /\ result = "partly-cloudy"

(***************************************************************************)
(* Concurrent get_weather calls for one city (weather_service.py).         *)
(***************************************************************************)
ConcCity == CityRio
Callers == 1..MaxCallers

\* what the provider answers to the concurrent calls
ConcOutcomes ==
    { o \in NetOutcomes :
        \/ o.kind = "ok"
        \/ o.kind = "http" /\ o.status \in {429, 500} }

\* the locals of a call: cached_data, data, and the value of time.time()
\* taken for the pair
CallerAt(pc, cached, data, ts) ==
    [pc |-> pc, cached |-> cached, data |-> data, ts |-> ts]

\* a store that keeps the data of the entry it replaces
StorePairTorn(entry, ts, data) ==
    IF entry = NoEntry THEN [ts |-> ts, data |-> data]
    ELSE [ts |-> ts, data |-> entry.data]

\* the tuple (time.time(), data) bound to self._cache[city] by one
\* dict assignment
StorePair(entry, ts, data) == [ts |-> ts, data |-> data]

\* the service with or without an entry for the city, and the calls begun
InitConc ==
    /\ \E e \in {NoEntry} \cup {[ts |-> 0, data |-> r] : r \in Readings} :
          /\ cache = [c \in CityNames |-> IF c = ConcCity THEN e ELSE NoEntry]
          /\ lastGood = [c \in CityNames |->
                            IF c = ConcCity /\ e # NoEntry THEN e.data
                            ELSE NoReading]
          /\ priorEntry = e
    /\ now = 0
    /\ ret = NoCall
    /\ callSeq = 0
    /\ mutated = <<>>
    /\ AppNew(<<>>, FALSE)
    /\ PureIdle
    /\ SimIdle
    /\ callers = [k \in Callers |-> CallerAt("start", NoReading, NoReading, 0)]
    /\ written = <<>>

\* the cache check: a fresh entry is returned, an expired one is kept for
\* the fallback
CallerLookup(k) ==
    /\ callers[k].pc = "start"
    /\ LET e == cache[ConcCity]
       IN  callers' =
              [callers EXCEPT ![k] =
                  IF e # NoEntry /\ IsFresh(e, now)
                  THEN CallerAt("returned", NoReading, NoReading, 0)
                  ELSE CallerAt("request",
                                IF e = NoEntry THEN NoReading ELSE e.data,
                                NoReading, 0)]
    /\ UNCHANGED <<svcVars, appVars, pureVars, simVars, written, priorEntry>>

\* the request, raise_for_status with its except clause, and the
\* normalisation of the answer
CallerRequest(k, net) ==
    /\ callers[k].pc = "request"
    /\ callers' =
          [callers EXCEPT ![k] =
              IF net.kind = "ok"
              THEN CallerAt("store", @.cached, NormalizedResponse[net.raw], 0)
              ELSE IF net.status = 429 /\ @.cached # NoReading
                   THEN CallerAt("returned", NoReading, NoReading, 0)
                   ELSE CallerAt("raised", NoReading, NoReading, 0)]
    /\ UNCHANGED <<svcVars, appVars, pureVars, simVars, written, priorEntry>>

\* time.time() of the pair is evaluated
CallerStamp(k) ==
    /\ callers[k].pc = "store"
    /\ callers' = [callers EXCEPT ![k] = CallerAt("write", @.cached, @.data, now)]
    /\ UNCHANGED <<svcVars, appVars, pureVars, simVars, written, priorEntry>>

\* self._cache[city] = (that time, data); return data.copy()
CallerWrite(k) ==
    /\ callers[k].pc = "write"
    /\ cache' = [cache EXCEPT ![ConcCity] =
                    StorePair(@, callers[k].ts, callers[k].data)]
    /\ lastGood' = [lastGood EXCEPT ![ConcCity] = callers[k].data]
    /\ written' = Append(written, [by |-> k, ts |-> callers[k].ts,
                                   data |-> callers[k].data])
    /\ callers' = [callers EXCEPT ![k] =
                      CallerAt("returned", NoReading, NoReading, 0)]
    /\ UNCHANGED <<now, ret, callSeq, mutated, priorEntry>>
    /\ UNCHANGED <<appVars, pureVars, simVars>>

NextConc ==
    \/ \E k \in Callers : CallerLookup(k)
    \/ \E k \in Callers, net \in ConcOutcomes : CallerRequest(k, net)
    \/ \E k \in Callers : CallerStamp(k)
    \/ \E k \in Callers : CallerWrite(k)
    \/ AdvanceClock(MaxNow)

SpecConc == InitConc /\ [][NextConc]_vars

\* C19: while calls for one city run concurrently, the city's entry is
\* absent or the prior entry as long as no call has stored, and afterwards
\* it is the whole pair (timestamp and reading of the same call) of the
\* call that stored last.
C19_EntryIsWholePair ==
    LET e == cache[ConcCity]
    IN  IF written = <<>> THEN e = priorEntry
        ELSE LET w == written[Len(written)]
             IN  /\ e # NoEntry
                 /\ e.ts = w.ts
                 /\ e.data = w.data

\* every call finished, two of them stored different readings, and the one
\* that stored last had taken its timestamp first
C19_Witness ==
    /\ \A k \in Callers : callers[k].pc \in {"returned", "raised"}
    /\ priorEntry # NoEntry
    /\ Len(written) >= 2
    /\ written[1].by # written[2].by
    /\ written[1].data # written[2].data
    /\ written[2].ts < written[1].ts
    /\ cache[ConcCity].ts = written[Len(written)].ts

(***************************************************************************)
(* HeadlessWeatherSimulator (app.py): unattended mode.                     *)
(***************************************************************************)
\* the city lists given with --cities
SimCityLists == {<<CityStLo>>, <<CityStLo, CityWild>>}

\* values of random.uniform rounded to one decimal, in tenths: the
\* temperature, humidity and wind of one dry hot reading stand for all draws
SimValues == { [t |-> 320, h |-> 400, w |-> 100] }

\* the items of payload other than timestamp and city
SimReading(v) ==
    [temperature |-> v.t, humidity |-> v.h, wind |-> v.w,
     condition |-> get_weather_condition(v.t, v.h)]

\* print(f"{city}: {t}C, {h}%, {w}km/h {condition}")
ReadingLine(city, data) == [kind |-> "reading", city |-> city, data |-> data]
\* print(f"Error writing to log file: {e}")
ErrorLine(city, data) == [kind |-> "error", city |-> city, data |-> data]

\* a log write whose exception leaves _simulate_data
LogWriteUncaught(fails) == IF fails THEN "uncaught" ELSE "written"

\* try: open(log_file, 'a') ... f.write(...)  except Exception: print(...)
LogWrite(fails) == IF fails THEN "caught" ELSE "written"

InitSim ==
    /\ SvcInit
    /\ PureIdle
    /\ ConcIdle
    /\ \E cs \in SimCityLists, m \in BOOLEAN : AppNew(cs, m)
    /\ logOn \in BOOLEAN
    /\ hpc = "new"
    /\ running = FALSE
    /\ hpos = 0
    /\ hticks = 0
    /\ stdout = <<>>
    /\ logfile = <<>>
    /\ stopCalled = FALSE

\* main calls simulator.start(): the frame is entered, nothing has run yet
StartCall ==
    /\ hpc = "new"
    /\ hpc' = "called"
    /\ UNCHANGED <<running, hpos, hticks, stdout, logfile, logOn, stopCalled>>
    /\ UNCHANGED <<svcVars, appVars, pureVars, concVars>>

\* self._running = True, then the try block is entered
StartEnter ==
    /\ hpc = "called"
    /\ running' = TRUE
    /\ hpc' = "loop"
    /\ UNCHANGED <<hpos, hticks, stdout, logfile, logOn, stopCalled>>
    /\ UNCHANGED <<svcVars, appVars, pureVars, concVars>>

\* while self._running: a pass of _simulate_data begins, or the loop ends
\* and the finally clause runs
LoopTest ==
    /\ hpc = "loop"
    /\ IF running
       THEN /\ hticks < MaxSimTicks
            /\ hpc' = "tick"
            /\ hpos' = 1
            /\ hticks' = hticks + 1
            /\ UNCHANGED running
       ELSE /\ hpc' = "returned"
            /\ running' = FALSE
            /\ UNCHANGED <<hpos, hticks>>
    /\ UNCHANGED <<stdout, logfile, logOn, stopCalled>>
    /\ UNCHANGED <<svcVars, appVars, pureVars, concVars>>

\* one iteration of the for loop of _simulate_data
SimulateCity(v, logFails) ==
    /\ hpc = "tick"
    /\ LET city == cities[hpos]
           data == SimReading(v)
           wrote == IF logOn THEN LogWrite(logFails) ELSE "off"
           last == hpos = Len(cities)
       IN  /\ workers' = IF ShouldPublish(mqttOn, connected)
                         THEN workers (+) SetToBag({PublishMessage(now, city, data)})
                         ELSE workers
           /\ logfile' = IF wrote = "written"
                         THEN Append(logfile, JsonDumps(now, city, data))
                         ELSE logfile
           /\ stdout' = CASE wrote = "caught" ->
                                stdout \o <<ErrorLine(city, data),
                                            ReadingLine(city, data)>>
                          [] wrote = "uncaught" -> stdout
                          [] OTHER -> Append(stdout, ReadingLine(city, data))
           /\ hpc' = IF wrote = "uncaught" THEN "raised"
                     ELSE IF last THEN "sleep" ELSE "tick"
           /\ hpos' = IF wrote = "uncaught" \/ last THEN 0 ELSE hpos + 1
           /\ running' = IF wrote = "uncaught" THEN FALSE ELSE running
    /\ UNCHANGED <<hticks, logOn, stopCalled>>
    /\ UNCHANGED <<svcVars, pureVars, concVars>>
    /\ UNCHANGED <<phase, cities, mqttOn, connected, city_data, temp_history,
                   time_history, histLog, pos, scheduled, due, ticks,
                   tickFailed, pubResult>>

\* time.sleep(self.update_interval / 1000.0) returns
SleepDone ==
    /\ hpc = "sleep"
    /\ hpc' = "loop"
    /\ now' = now + UPDATE_INTERVAL
    /\ UNCHANGED <<running, hpos, hticks, stdout, logfile, logOn, stopCalled>>
    /\ UNCHANGED <<cache, ret, callSeq, lastGood, mutated>>
    /\ UNCHANGED <<appVars, pureVars, concVars>>

\* stop() called by another thread, before, during or after start()
Stop ==
    /\ hpc # "none"
    /\ running' = FALSE
    /\ stopCalled' = TRUE
    /\ UNCHANGED <<hpc, hpos, hticks, stdout, logfile, logOn>>
    /\ UNCHANGED <<svcVars, appVars, pureVars, concVars>>

\* KeyboardInterrupt raised in the thread that runs start(): inside the try
\* block it is caught and the finally clause runs; before the try block it
\* leaves start()
Interrupt ==
    /\ hpc \in {"called", "loop", "tick", "sleep"}
    /\ IF hpc = "called"
       THEN hpc' = "raised" /\ UNCHANGED running
       ELSE hpc' = "returned" /\ running' = FALSE
    /\ hpos' = 0
    /\ UNCHANGED <<hticks, stdout, logfile, logOn, stopCalled>>
    /\ UNCHANGED <<svcVars, appVars, pureVars, concVars>>

\* a publish thread started by _simulate_data runs MqttClient.publish
SimPublishWorker(m, fails) ==
    /\ hpc # "none"
    /\ BagIn(m, workers)
    /\ workers' = workers (-) SetToBag({m})
    /\ pubResult' = MqttPublish(connected, fails)
    /\ UNCHANGED <<svcVars, pureVars, concVars, simVars>>
    /\ UNCHANGED <<phase, cities, mqttOn, connected, city_data, temp_history,
                   time_history, histLog, pos, scheduled, due, ticks,
                   tickFailed>>

NextSim ==
    \/ StartCall
    \/ StartEnter
    \/ LoopTest
    \/ \E v \in SimValues, logFails \in BOOLEAN : SimulateCity(v, logFails)
    \/ SleepDone
    \/ Stop
    \/ Interrupt
    \/ \E rc \in {0, 5} : OnConnect(rc)
    \/ OnDisconnect
    \/ \E m \in BagToSet(workers), fails \in BOOLEAN : SimPublishWorker(m, fails)

SpecSim == InitSim /\ [][NextSim]_vars

\* the step is one iteration of the for loop of _simulate_data
IsSimCity ==
    /\ hpc = "tick"
    /\ hpc' \in {"tick", "sleep", "raised"}
    /\ hpos' # hpos

\* C15: once stop() was called, no pass of _simulate_data begins.
C15_StopEndsLoop ==
    [][stopCalled => ~(hpc = "loop" /\ hpc' = "tick")]_vars

\* C16: every iteration of a pass prints exactly one line on standard
\* output for the next city of the list.
C16_Original ==
    [][IsSimCity
         => /\ Len(stdout') = Len(stdout) + 1
            /\ stdout'[Len(stdout')].city = cities[hpos]]_vars

\* C16 amended: a pass begins with the first city; every iteration handles
\* the next city of the list, prints its reading line last, and leads to the
\* next city or to the end of the pass; with a log file configured it either
\* appends the city's JSON line and prints nothing else, or the write fails
\* and it prints one error line before the reading line; without a log file
\* it appends and reports nothing.
C16_TickLines ==
    [][/\ (hpc = "loop" /\ hpc' = "tick") => hpos' = 1
       /\ IsSimCity
            => LET n == Len(stdout)
                   added == SubSeq(stdout', n + 1, Len(stdout'))
                   line == stdout'[Len(stdout')]
                   logged == JsonDumps(now, cities[hpos], line.data)
               IN  /\ Len(stdout') > n
                   /\ SubSeq(stdout', 1, n) = stdout
                   /\ line.kind = "reading"
                   /\ line.city = cities[hpos]
                   /\ IF hpos = Len(cities)
                      THEN hpc' = "sleep"
                      ELSE hpc' = "tick" /\ hpos' = hpos + 1
                   /\ IF logOn
                      THEN \/ /\ logfile' = Append(logfile, logged)
                              /\ added = <<line>>
                           \/ /\ logfile' = logfile
                              /\ added = <<ErrorLine(line.city, line.data), line>>
                      ELSE /\ logfile' = logfile
                           /\ added = <<line>>]_vars

\* a log write failed for the first city of the first pass, and the second
\* pass wrote the log line of the last city
C16_Witness ==
    /\ logOn
    /\ hticks = 2
    /\ hpc = "sleep"
    /\ Len(cities) = 2
    /\ stdout[1].kind = "error"
    /\ stdout[2] = ReadingLine(cities[1], stdout[1].data)
    /\ Len(stdout) = 5
    /\ Len(logfile) = 3
    /\ logfile[3][2][2] = cities[2]

\* C17: with a publish sink configured, every iteration of a pass hands the
\* city's reading to the sink.
C17_Original ==
    [][(IsSimCity /\ mqttOn) => workers' # workers]_vars

\* C17 amended: an iteration of a pass starts a publish thread exactly when
\* a sink is configured and is_connected() is true at that moment; the
\* thread carries the city's topic and the reading printed for the city.
C17_PublishWhenConnected ==
    [][IsSimCity
         => LET line == stdout'[Len(stdout')]
                m == PublishMessage(now, cities[hpos], line.data)
            IN  IF mqttOn /\ connected
                THEN workers' = workers (+) SetToBag({m})
                ELSE workers' = workers]_vars

\* a sink is configured, the connection is not up, and a whole pass printed
\* its readings without handing any of them to the sink
C17_Witness ==
    /\ mqttOn
    /\ ~connected
    /\ hpc = "sleep"
    /\ Len(stdout) >= Len(cities)
    /\ workers = EmptyBag
    /\ pubResult = NoPublish

(***************************************************************************)
(* Construction of the service and interactive start-up.                   *)
(***************************************************************************)
\* None or the empty string
NoKey == <<>>
\* the key WeatherApp.__init__ passes to the constructor
APP_API_KEY == <<"TYPZAV86LVECNE9JMXGJYTFNT">>
\* the api_key argument and the environment variable of a construction
ArgKeys == {NoKey, <<"key-of-the-caller">>}
EnvKeys == {NoKey, <<"key-of-the-environment">>}

\* WeatherService.__init__: the key is the argument or else the
\* environment variable; without a key ValueError is raised before the
\* cache is created
WeatherServiceInit(api_key, env) ==
    LET key == IF api_key # NoKey THEN api_key ELSE env
    IN  IF key = NoKey
        THEN [kind |-> "raise", class |-> "ValueError", api_key |-> NoKey,
              cache |-> <<>>]
        ELSE [kind |-> "ok", class |-> "none", api_key |-> key,
              cache |-> [c \in CityNames |-> NoEntry]]

InitStart ==
    /\ SvcInit
    /\ ConcIdle
    /\ SimIdle
    /\ \E cs \in CityLists : AppNew(cs, FALSE)
    /\ arg \in [api_key : ArgKeys, env : EnvKeys]
    /\ applied = 0
    /\ result = <<>>
    /\ result2 = <<>>

\* a caller constructs WeatherService(api_key) under the environment
NewService ==
    /\ applied = 0
    /\ result' = WeatherServiceInit(arg.api_key, arg.env)
    /\ applied' = 1
    /\ UNCHANGED <<arg, result2>>
    /\ UNCHANGED <<svcVars, appVars, concVars, simVars>>

\* main constructs WeatherApp under the environment: the service is built
\* with APP_API_KEY; a ValueError is shown and raised again, which ends
\* __init__ before root.after; otherwise __init__ goes on
StartApp(net, lat, variation) ==
    /\ phase = "new"
    /\ IF WeatherServiceInit(APP_API_KEY, arg.env).kind = "raise"
       THEN /\ phase' = "failed"
            /\ UNCHANGED <<svcVars, extVars>>
            /\ UNCHANGED <<cities, mqttOn, connected, city_data, temp_history,
                           time_history, histLog, pos, scheduled, due, ticks,
                           tickFailed, workers, pubResult>>
       ELSE Construct(net, lat, variation)

NextStart ==
    \/ NewService
    \/ \E net \in AppOutcomes, lat \in AppLatencies, variation \in Jitters :
          StartApp(net, lat, variation)
    \/ Tick
    \/ AdvanceClock(MaxAppNow)
    \/ CloseWindow

SpecStart == InitStart /\ [][NextStart]_vars

=============================================================================
